---- MODULE Spec2Model ----
(***************************************************************************)
(* LondonPropertyScrapper: the concurrent fetch / paginate / parse         *)
(* pipeline of the three listing sources (OnTheMarket, Rightmove, Zoopla). *)
(*                                                                         *)
(* The module holds one specification per layer of the pipeline:           *)
(*   SpecFetch   utils/add_utils.py         fetch under tenacity.retry     *)
(*   SpecGate    */FetchData.py             semaphore, connector, tasks    *)
(*   SpecMain    property_scraper.py        the three source drivers       *)
(*   SpecRM      rightmove_scraper          region walks of one session    *)
(*   SpecRMLongWalk  rightmove_scraper      one region, walks of many pages*)
(*   SpecOTM     onthemarket_scraper        link walks, then detail tasks  *)
(*   SpecZoopla  zoopla_scraper             get_data page loop             *)
(*   SpecParse   */FetchData.py parse_data  row normalisation of one page  *)
(*   SpecRecord  parse_price, parse_property_data   one listing's fields   *)
(* Every specification runs over the same variables; the variables of the  *)
(* layers it does not exercise stay at their initial value.                *)
(***************************************************************************)
EXTENDS Integers, Sequences, FiniteSets, TLC

VARIABLES
    \* ---- fetch (utils/add_utils.py) ----
    f_pc,            \* "idle" | "attempt" | "wait" | "returned" | "raised"
    attempt_number,  \* tenacity's retry_state.attempt_number
    f_outcomes,      \* outcome of every attempt made so far, in order
    f_result,        \* what the call handed to its caller
    f_clock,         \* time spent sleeping between attempts
    \* ---- one HTTP session: semaphore, connector, region tasks ----
    g_pc,            \* position of fetch_all_property_data
    sem,             \* asyncio.Semaphore._value: permits still available
    tasks,           \* number of region tasks at each position
    \* ---- property_scraper.py: main, async_scrape and the three drivers ----
    m_pc,            \* position of main / async_scrape
    list1,           \* main's local list1
    zoopla_worker,   \* scrape_from_zoopla on the executor thread
    otm_task,        \* asyncio task running scrape_from_otm
    rm_task,         \* asyncio task running scrape_from_rightmove
    gathered,        \* outcome of asyncio.gather(otm_task, rm_task)
    m_result,        \* what main returned or raised
    \* ---- rightmove_scraper/FetchData.py: one session, one task per outcode ----
    rm_pc,           \* per outcode: "created" | "fetching" | "returned" | "raised"
    search_type,     \* per outcode: index into SearchTypes of the current walk
    page_num,        \* per outcode: result index of the page being requested
    last_page,       \* per outcode: largest result index the walk will request
    property_list,   \* per outcode: records collected so far
    rm_requests,     \* per outcode: every <<search type, index>> requested, in order
    rm_total,        \* per outcode and search type: result count the site reported
    rm_responses,    \* per outcode: <<search type, index, rows>> of every page received
    rm_logged,       \* calls made to logger.error, in order
    rm_result,       \* per outcode: what the task returned or raised
    property_data,   \* what fetch_all_property_data returned or raised
    \* ---- onthemarket_scraper/FetchPropertyLinks.py: one task per zipcode ----
    otm_pc,          \* per zipcode: "created" | "fetching" | "returned" | "raised"
    otm_search_type, \* per zipcode: index into OtmSearchTypes of the current walk
    otm_page_num,    \* per zipcode: page_num of the current walk
    all_urls,        \* per zipcode: links collected so far
    otm_requests,    \* per zipcode: every <<search type, page>> requested, in order
    otm_responses,   \* per zipcode: <<search type, page, rows>> of every page received
    otm_logged,      \* calls made to logger.error, in order
    otm_result,      \* per zipcode: what the task returned or raised
    property_links,  \* what fetch_all_property_urls returned or raised
    \* ---- onthemarket_scraper/FetchPropertyData.py: one task per link ----
    otm_data_pc,     \* per link: "none" | "fetching" | "returned" | "raised"
    otm_data_result, \* per link: what get_property_data returned or raised
    otm_data_logged, \* calls made to logger.error, in order
    otm_data_requests, \* links fetch was called with by the detail tasks, in order
    otm_property_lists, \* what scrape_from_otm returned or raised
    \* ---- zoopla_scraper/FetchData.py: one call of get_data ----
    z_pc,            \* "idle" | "loop" | "returned" | "raised"
    z_for_sale,      \* the for_sale argument
    z_page_num,      \* page_num
    full_list,       \* records collected so far
    z_requests,      \* page numbers opened in the browser, in order
    z_logged,        \* calls made to log_dict[task].error, in order
    z_result,        \* what get_data returned or raised
    \* ---- parse_data applied to one page payload ----
    pg_rows,         \* the rows of the payload
    pg_for_sale,     \* for_sale argument of the Zoopla parse
    pg_out,          \* per source: what parse_data returned or raised
    \* ---- the parsers applied to one OnTheMarket detail payload ----
    rc_json,         \* json_data of the detail page
    rc_form,         \* what the price text of rc_json was written from
    rc_today,        \* the day datetime.datetime.today() falls on
    rc_price,        \* per source: what parse_price returned or raised
    rc_parses,       \* results of the calls of parse_property_data, in order
    rc_features,     \* row['features'] of a Zoopla listing row
    rc_rooms         \* what total_bad_and_bath returned for rc_features

fetchVars == <<f_pc, attempt_number, f_outcomes, f_result, f_clock>>
gateVars == <<g_pc, sem, tasks>>
mainVars == <<m_pc, list1, zoopla_worker, otm_task, rm_task, gathered, m_result>>
rmVars == <<rm_pc, search_type, page_num, last_page, property_list, rm_requests,
           rm_total, rm_responses, rm_logged, rm_result, property_data>>
otmDataVars == <<otm_data_pc, otm_data_result, otm_data_logged, otm_data_requests,
                 otm_property_lists>>
otmVars == <<otm_pc, otm_search_type, otm_page_num, all_urls, otm_requests,
            otm_responses, otm_logged, otm_result, property_links, otmDataVars>>
zVars == <<z_pc, z_for_sale, z_page_num, full_list, z_requests, z_logged, z_result>>
parseVars == <<pg_rows, pg_for_sale, pg_out>>
recVars == <<rc_json, rc_form, rc_today, rc_price, rc_parses, rc_features, rc_rooms>>

vars == <<fetchVars, gateVars, mainVars, rmVars, otmVars, zVars, parseVars, recVars>>

\* what an action of one layer leaves alone in the other layers
notFetch == <<gateVars, mainVars, rmVars, otmVars, zVars, parseVars, recVars>>
notGate == <<fetchVars, mainVars, rmVars, otmVars, zVars, parseVars, recVars>>
notMain == <<fetchVars, gateVars, rmVars, otmVars, zVars, parseVars, recVars>>
notRM == <<fetchVars, gateVars, mainVars, otmVars, zVars, parseVars, recVars>>
notOTM == <<fetchVars, gateVars, mainVars, rmVars, zVars, parseVars, recVars>>
notZoopla == <<fetchVars, gateVars, mainVars, rmVars, otmVars, parseVars, recVars>>
notParse == <<fetchVars, gateVars, mainVars, rmVars, otmVars, zVars, recVars>>
notRecord == <<fetchVars, gateVars, mainVars, rmVars, otmVars, zVars, parseVars>>

(***************************************************************************)
(* utils/add_utils.py: fetch, wrapped by tenacity.retry                    *)
(***************************************************************************)

\* stop=stop_after_attempt(5)
MaxAttempts == 5

\* wait=wait_fixed(5)
WaitFixed == 5

\* what one session.get / response.text() can do
TransientErrors == {"TimeoutError", "ServerDisconnectedError"}
NonTransientErrors == {"ClientConnectorError", "ClientPayloadError"}
AttemptOutcomes == {"ok"} \cup TransientErrors \cup NonTransientErrors

NoResult == <<"none">>
Body(k) == <<"body", k>>
Raised(e) == <<"exc", e>>

retry_if_all_exceptions(e) == TRUE

\* retry=retry_if_exception_type((asyncio.exceptions.TimeoutError, ServerDisconnectedError))
retry_if_exception_type(e) == e \in TransientErrors

stop_after_one_more(n) == n > MaxAttempts

\* stop=stop_after_attempt(5): true once attempt_number has reached the maximum
stop_after_attempt(n) == n >= MaxAttempts

InitFetch ==
    /\ f_pc = "idle"
    /\ attempt_number = 0
    /\ f_outcomes = <<>>
    /\ f_result = NoResult
    /\ f_clock = 0

\* a caller awaits fetch(session, url, headers): tenacity starts attempt 1
FetchCall ==
    /\ f_pc = "idle"
    /\ f_pc' = "attempt"
    /\ attempt_number' = 1
    /\ UNCHANGED <<f_outcomes, f_result, f_clock>>
    /\ UNCHANGED notFetch

\* one run of the body (session.get + response.text()) and tenacity's verdict on it
FetchAttempt(o) ==
    /\ f_pc = "attempt"
    /\ f_outcomes' = Append(f_outcomes, o)
    /\ IF o = "ok"
         THEN /\ f_pc' = "returned"
              /\ f_result' = Body(attempt_number)
         ELSE IF ~retry_if_exception_type(o)
         THEN /\ f_pc' = "raised"
              /\ f_result' = Raised(o)
         ELSE IF stop_after_attempt(attempt_number)
         THEN /\ f_pc' = "raised"
              /\ f_result' = Raised("RetryError")
         ELSE /\ f_pc' = "wait"
              /\ f_result' = f_result
    /\ UNCHANGED <<attempt_number, f_clock>>
    /\ UNCHANGED notFetch

\* wait_fixed(5) elapses, then the next attempt begins
FetchWait ==
    /\ f_pc = "wait"
    /\ f_clock' = f_clock + WaitFixed
    /\ attempt_number' = attempt_number + 1
    /\ f_pc' = "attempt"
    /\ UNCHANGED <<f_outcomes, f_result>>
    /\ UNCHANGED notFetch

FetchTry == \E o \in AttemptOutcomes : FetchAttempt(o)

NextFetch == FetchCall \/ FetchTry \/ FetchWait

IsTransient(o) == o \in TransientErrors
AllTransient(s) == \A i \in 1..Len(s) : IsTransient(s[i])

\* C4: a call whose attempts all fail transiently makes exactly 5 attempts,
\* each separated from the next by the fixed wait, never a 6th, and ends with
\* RetryError; a call returns the body of the first attempt that succeeds and
\* attempts nothing after it.
Thm_C4_RetryBudget ==
    /\ Len(f_outcomes) <= MaxAttempts
    /\ f_clock = WaitFixed * (IF Len(f_outcomes) = 0 THEN 0
                              ELSE IF f_pc = "attempt" THEN Len(f_outcomes)
                              ELSE Len(f_outcomes) - 1)
    /\ (f_pc = "raised" /\ AllTransient(f_outcomes))
          => /\ Len(f_outcomes) = MaxAttempts
             /\ f_result = Raised("RetryError")
             /\ f_clock = WaitFixed * (MaxAttempts - 1)
    /\ (\E i \in 1..Len(f_outcomes) : f_outcomes[i] = "ok")
          => /\ f_outcomes[Len(f_outcomes)] = "ok"
             /\ \A i \in 1..(Len(f_outcomes) - 1) : f_outcomes[i] # "ok"
             /\ f_pc = "returned"
             /\ f_result = Body(Len(f_outcomes))
    /\ f_result = Raised("RetryError")
          => AllTransient(f_outcomes) /\ Len(f_outcomes) = MaxAttempts

Wit_C4_Exhausted ==
    /\ f_pc = "raised"
    /\ f_result = Raised("RetryError")
    /\ Len(f_outcomes) = MaxAttempts
    /\ AllTransient(f_outcomes)

\* C5: an attempt that fails with a non-transient error is the last attempt of
\* its call; the call raises that very error, never RetryError, and when the
\* error is on the first attempt the call made exactly one attempt.
Thm_C5_NoRetryNonTransient ==
    \A i \in 1..Len(f_outcomes) :
        f_outcomes[i] \in NonTransientErrors
            => /\ i = Len(f_outcomes)
               /\ f_pc = "raised"
               /\ f_result = Raised(f_outcomes[i])
               /\ f_result # Raised("RetryError")

Wit_C5_FirstAttemptFatal ==
    /\ Len(f_outcomes) = 1
    /\ f_outcomes[1] \in NonTransientErrors
    /\ f_pc = "raised"
    /\ f_result = Raised(f_outcomes[1])


(***************************************************************************)
(* One HTTP session: fetch_all_property_data (Rightmove),                  *)
(* fetch_all_property_urls and fetch_all_property_data (OnTheMarket).      *)
(* The three functions share one shape: build the session, build the       *)
(* semaphore, enter and leave "async with sem" around a generator          *)
(* expression, then gather.  Region tasks are interchangeable      *)
(* here, so the state counts how many of them stand at each position.      *)
(***************************************************************************)

\* NUM_REQ=30: value of the semaphore and limit of the TCPConnector
NUM_REQ == 30

\* length of outcode_list / zipcode_list
NumOutcodes == 31

\* positions of a region task:
\*   created    scheduled by ensure_future, has not run yet
\*   queued     inside fetch: session.get waits for a connection of the pool
\*   connected  inside fetch: holds a connection, request on the wire
\*   sleeping   inside fetch: tenacity's wait between two attempts
\*   finished   the task's coroutine has returned or raised
TaskPositions == {"created", "queued", "connected", "sleeping", "finished"}

Move(from, to) == [tasks EXCEPT ![from] = @ - 1, ![to] = @ + 1]

InitGate ==
    /\ g_pc = "enter_sem"
    /\ sem = NUM_REQ
    /\ tasks = [p \in TaskPositions |-> 0]

\* "async with sem:" Semaphore.acquire
SemAcquire ==
    /\ g_pc = "enter_sem"
    /\ sem > 0
    /\ sem' = sem - 1
    /\ g_pc' = "in_sem"
    /\ UNCHANGED tasks
    /\ UNCHANGED notGate

\* the body of the with block builds a generator expression, which creates
\* no task; leaving the block releases the permit
SemRelease ==
    /\ g_pc = "in_sem"
    /\ sem' = sem + 1
    /\ g_pc' = "gather"
    /\ UNCHANGED tasks
    /\ UNCHANGED notGate

\* gather drains the generator: ensure_future for every outcode
GatherSpawn ==
    /\ g_pc = "gather"
    /\ tasks' = [tasks EXCEPT !["created"] = NumOutcodes]
    /\ g_pc' = "awaiting"
    /\ UNCHANGED sem
    /\ UNCHANGED notGate

\* a task runs up to its first await: fetch(...) calls session.get
TaskIssueFetch ==
    /\ g_pc = "awaiting"
    /\ tasks["created"] > 0
    /\ tasks' = Move("created", "queued")
    /\ UNCHANGED <<g_pc, sem>>
    /\ UNCHANGED notGate

\* TCPConnector(limit=NUM_REQ) hands out a connection
ConnectorAcquire ==
    /\ tasks["queued"] > 0
    /\ tasks["connected"] < NUM_REQ
    /\ tasks' = Move("queued", "connected")
    /\ UNCHANGED <<g_pc, sem>>
    /\ UNCHANGED notGate

\* the response arrives, the page is parsed and the walk asks for the next
\* page without suspending in between
FetchCompleteNextPage ==
    /\ tasks["connected"] > 0
    /\ tasks' = Move("connected", "queued")
    /\ UNCHANGED <<g_pc, sem>>
    /\ UNCHANGED notGate

\* the attempt fails with a transient error: tenacity sleeps
FetchAttemptFails ==
    /\ tasks["connected"] > 0
    /\ tasks' = Move("connected", "sleeping")
    /\ UNCHANGED <<g_pc, sem>>
    /\ UNCHANGED notGate

\* the sleep is over: next attempt
FetchRetry ==
    /\ tasks["sleeping"] > 0
    /\ tasks' = Move("sleeping", "queued")
    /\ UNCHANGED <<g_pc, sem>>
    /\ UNCHANGED notGate

\* the last fetch of the walk completes or fails terminally: the task ends
FetchCompleteLast ==
    /\ tasks["connected"] > 0
    /\ tasks' = Move("connected", "finished")
    /\ UNCHANGED <<g_pc, sem>>
    /\ UNCHANGED notGate

\* gather has every result
GatherReturn ==
    /\ g_pc = "awaiting"
    /\ tasks["finished"] = NumOutcodes
    /\ g_pc' = "returned"
    /\ UNCHANGED <<sem, tasks>>
    /\ UNCHANGED notGate

NextGate ==
    \/ SemAcquire \/ SemRelease \/ GatherSpawn \/ TaskIssueFetch
    \/ ConnectorAcquire \/ FetchCompleteNextPage \/ FetchAttemptFails
    \/ FetchRetry \/ FetchCompleteLast \/ GatherReturn

\* fetch calls that have issued their request and not yet seen it end
InFlight == tasks["queued"] + tasks["connected"]

\* permits of the semaphore currently held
PermitsHeld == NUM_REQ - sem

CE_C2_PermitHeldPerRequest == InFlight <= PermitsHeld

(***************************************************************************)
(* property_scraper.py: main and async_scrape; zoopla_scraper/main.py:     *)
(* scrape_from_zoopla.  A source driver is seen from outside: it returns   *)
(* some collection of records or raises.                                   *)
(***************************************************************************)

\* Python values that reach main: a list, a pandas DataFrame, a Future
PyList(s) == <<"list", s>>
PyFuture(name) == <<"Future", name>>
IsPyList(v) == v[1] = "list"
IsRaised(v) == v[1] = "exc"

NotStarted == <<"not_started">>
Running == <<"running">>
Returned(v) == <<"ret", v>>
IsReturned(v) == v[1] = "ret"

\* record collections a driver can hand back
OtmRecords == {<<>>, <<"otm_a">>, <<"otm_a", "otm_b">>}
RmRecords == {<<>>, <<"rm_a">>, <<"rm_a", "rm_b">>}

\* exceptions that leave scrape_from_otm: get_zc_property_urls and
\* get_property_data catch tenacity.RetryError only
OtmErrors == {"AttributeError", "KeyError", "ClientConnectorError"}

\* exceptions that leave scrape_from_rightmove: get_property_data catches
\* TimeoutError and tenacity.RetryError only
RmErrors == {"ValueError", "AttributeError", "KeyError"}

\* scrape_from_zoopla: ChromeDriverManager().install() may fail; otherwise
\* executor.submit(get_data, driver_path, True) calls get_data, which takes
\* one parameter, with two arguments, and sales_task.result() re-raises
ZooplaErrors == {"WebDriverManagerError", "TypeError"}

\* Python's a + b for the operands main can see
PyAdd(a, b) ==
    IF IsPyList(a) /\ IsPyList(b) THEN Returned(PyList(a[2] \o b[2]))
    ELSE Raised("TypeError")

InitMain ==
    /\ m_pc = "run_in_executor"
    /\ list1 = NotStarted
    /\ zoopla_worker = NotStarted
    /\ otm_task = NotStarted
    /\ rm_task = NotStarted
    /\ gathered = NoResult
    /\ m_result = NoResult

\* list1 = loop.run_in_executor(executor, scrape_from_zoopla)
MainRunInExecutor ==
    /\ m_pc = "run_in_executor"
    /\ zoopla_worker' = Running
    /\ list1' = PyFuture("scrape_from_zoopla")
    /\ m_pc' = "create_tasks"
    /\ UNCHANGED <<otm_task, rm_task, gathered, m_result>>
    /\ UNCHANGED notMain

\* await async_scrape(): create_task twice, then await gather
AsyncScrapeCreateTasks_after_worker ==
    /\ m_pc = "create_tasks"
    /\ zoopla_worker # Running
    /\ otm_task' = Running
    /\ rm_task' = Running
    /\ m_pc' = "gather"
    /\ UNCHANGED <<list1, zoopla_worker, gathered, m_result>>
    /\ UNCHANGED notMain
AsyncScrapeCreateTasks ==
    /\ m_pc = "create_tasks"
    /\ otm_task' = Running
    /\ rm_task' = Running
    /\ m_pc' = "gather"
    /\ UNCHANGED <<list1, zoopla_worker, gathered, m_result>>
    /\ UNCHANGED notMain

\* the worker thread ends
ZooplaWorkerRaises(e) ==
    /\ zoopla_worker = Running
    /\ zoopla_worker' = Raised(e)
    /\ UNCHANGED <<m_pc, list1, otm_task, rm_task, gathered, m_result>>
    /\ UNCHANGED notMain

\* gather without return_exceptions: the first exception of a child is the
\* outcome; results are delivered once every child has returned
GatherOutcome(otm, rm) ==
    IF gathered # NoResult THEN gathered
    ELSE IF IsRaised(otm) THEN otm
    ELSE IF IsRaised(rm) THEN rm
    ELSE IF IsReturned(otm) /\ IsReturned(rm) THEN Returned(<<otm[2], rm[2]>>)
    ELSE NoResult

OtmEnds(v) ==
    /\ otm_task = Running
    /\ otm_task' = v
    /\ gathered' = GatherOutcome(v, rm_task)
    /\ UNCHANGED <<m_pc, list1, zoopla_worker, rm_task, m_result>>
    /\ UNCHANGED notMain

RmEnds(v) ==
    /\ rm_task = Running
    /\ rm_task' = v
    /\ gathered' = GatherOutcome(otm_task, v)
    /\ UNCHANGED <<m_pc, list1, zoopla_worker, otm_task, m_result>>
    /\ UNCHANGED notMain

ScrapeFromOtmReturns == \E l \in OtmRecords : OtmEnds(Returned(l))
ScrapeFromOtmRaises == \E e \in OtmErrors : OtmEnds(Raised(e))
ScrapeFromRightmoveReturns == \E l \in RmRecords : RmEnds(Returned(l))
ScrapeFromRightmoveRaises == \E e \in RmErrors : RmEnds(Raised(e))
ScrapeFromZooplaRaises == \E e \in ZooplaErrors : ZooplaWorkerRaises(e)

\* gather raised: nothing in async_scrape or main catches it
MainPropagates ==
    /\ m_pc = "gather"
    /\ IsRaised(gathered)
    /\ m_result' = gathered
    /\ m_pc' = "done"
    /\ UNCHANGED <<list1, zoopla_worker, otm_task, rm_task, gathered>>
    /\ UNCHANGED notMain

\* properties = [prop_dict for lists in all_tasks for prop_dict in lists];
\* back in main: properties = list1 + list2, where list1 is still the Future
MainConcat ==
    /\ m_pc = "gather"
    /\ IsReturned(gathered)
    /\ LET list2 == PyList(gathered[2][1] \o gathered[2][2])
       IN  m_result' = PyAdd(list1, list2)
    /\ m_pc' = "done"
    /\ UNCHANGED <<list1, zoopla_worker, otm_task, rm_task, gathered>>
    /\ UNCHANGED notMain

NextMain ==
    \/ MainRunInExecutor \/ AsyncScrapeCreateTasks
    \/ ScrapeFromOtmReturns \/ ScrapeFromOtmRaises
    \/ ScrapeFromRightmoveReturns \/ ScrapeFromRightmoveRaises
    \/ ScrapeFromZooplaRaises
    \/ MainPropagates \/ MainConcat

SeqRange(s) == {s[i] : i \in 1..Len(s)}

NoRepeats(s) == \A i, j \in 1..Len(s) : i # j => s[i] # s[j]

\* the records main hands back, when it hands back a collection
FinalRecords == IF IsReturned(m_result) THEN SeqRange(m_result[2][2]) ELSE {}

DriverRecords(d) == IF IsReturned(d) THEN SeqRange(d[2]) ELSE {}

\* C3: when main has ended and one source driver raised, main returned a
\* collection that contains every record the other drivers returned.
CE_C3_OtherSourcesSurvive ==
    (m_pc = "done" /\ (IsRaised(otm_task) \/ IsRaised(rm_task) \/ IsRaised(zoopla_worker)))
        => /\ IsReturned(m_result)
           /\ DriverRecords(otm_task) \subseteq FinalRecords
           /\ DriverRecords(rm_task) \subseteq FinalRecords

\* C12: when main has ended after both asynchronous drivers returned, it
\* has produced a final collection, the Zoopla worker thread had completed
\* by then, and the collection contains every record the drivers returned.
CE_C12_FinalAfterAllThree ==
    (m_pc = "done" /\ IsReturned(otm_task) /\ IsReturned(rm_task))
        => /\ IsReturned(m_result)
           /\ zoopla_worker # Running
           /\ DriverRecords(otm_task) \cup DriverRecords(rm_task) \subseteq FinalRecords

\* C29: the three source drivers run concurrently: the Zoopla worker has
\* been started whenever the OnTheMarket or the Rightmove task has, the two
\* tasks are started together, and once the worker is submitted the start
\* of the tasks is possible whether or not the worker has ended.
Thm_C29_DriversConcurrent ==
    /\ (otm_task # NotStarted \/ rm_task # NotStarted) => zoopla_worker # NotStarted
    /\ (otm_task = NotStarted) <=> (rm_task = NotStarted)
    /\ m_pc = "create_tasks" => ENABLED AsyncScrapeCreateTasks

\* the three drivers are in progress at once
Wit_C29_AllThreeInProgress ==
    /\ zoopla_worker = Running
    /\ otm_task = Running
    /\ rm_task = Running

(***************************************************************************)
(* rightmove_scraper/FetchData.py: fetch_all_property_data,                *)
(* get_property_data, get_max_page, parse_data.  A task runs without       *)
(* interruption from one "await fetch" to the next.                        *)
(***************************************************************************)

\* get_outcode_list()
OutcodeList == <<"e1", "e2">>
Outcodes == SeqRange(OutcodeList)

\* for search_type in ["property-for-sale", "property-to-rent"]
SearchTypes == <<"property-for-sale", "property-to-rent">>

\* IDX=24: results per page, stride of the index parameter
IDX == 24

\* Rightmove serves at most 42 pages of a search
MaxPages == 42

\* total result counts the site may report for one search
ResultCounts == {0, 2, 10}

\* the text of span.searchHeader-resultCount, when the page has one
Missing == <<"missing">>
Count(n) == <<"count", n>>

\* what a page the site serves can be like: as expected, without the
\* result count, without the data block, with a row that lacks a key, or
\* with a listing at its top that the site shows on every page of every
\* outcode whose search area covers it
PageDefects == {"none", "no_count", "no_block", "bad_row", "featured"}

\* the listing shown for several outcodes and on several pages
FeaturedRow(st) == [id |-> <<"any", st, 0>>, complete |-> TRUE]

\* what one call of fetch ends with: a body, tenacity.RetryError, or the
\* non-transient error of its last attempt
FetchFailures == {"RetryError"} \cup NonTransientErrors

Min(a, b) == IF a < b THEN a ELSE b
Max(a, b) == IF a > b THEN a ELSE b

\* number of listing rows on the page that starts at result index idx
NumRows(total, idx) == Max(0, Min(IDX, total - idx))

\* the page the site serves for one search at index idx
RmPage(outcode, st, idx, total, defect) ==
    [count |-> IF defect = "no_count" THEN Missing ELSE Count(total),
     block |-> defect # "no_block",
     rows  |-> (IF defect = "featured" THEN <<FeaturedRow(st)>> ELSE <<>>)
               \o [i \in 1..NumRows(total, idx) |->
                    [id |-> <<outcode, st, idx + i>>,
                     complete |-> ~(defect = "bad_row" /\ i = 1)]]]

\* get_max_page(resp)
get_max_page(resp) ==
    IF resp.count = Missing THEN Raised("ValueError")
    ELSE LET result_count == resp.count[2]
             last_num == IF result_count > 23 THEN result_count \div IDX
                         ELSE (result_count + IDX - 1) \div IDX
         IN  Returned(IF last_num >= MaxPages THEN MaxPages * IDX ELSE last_num * IDX)

\* the dictionary parse_data builds from one row
RmRecord_source_of_row(row) == [property_id |-> row.id, listing_source |-> row.id[1]]
RmRecord(row) == [property_id |-> row.id, listing_source |-> "rightmove"]

\* rows are read in order; the first row without a key it reads raises KeyError
RECURSIVE RmParseRows(_, _)
RmParseRows(rows, property_lists) ==
    IF rows = <<>> THEN Returned(property_lists)
    ELSE IF ~Head(rows).complete THEN Raised("KeyError")
    ELSE RmParseRows(Tail(rows), Append(property_lists, RmRecord(Head(rows))))

\* parse_data(resp) of rightmove_scraper/FetchData.py
rm_parse_data(resp) ==
    IF ~resp.block THEN Raised("AttributeError")
    ELSE RmParseRows(resp.rows, <<>>)

InitRM ==
    /\ rm_pc = [o \in Outcodes |-> "created"]
    /\ search_type = [o \in Outcodes |-> 1]
    /\ page_num = [o \in Outcodes |-> 0]
    /\ last_page = [o \in Outcodes |-> MaxPages * IDX]
    /\ property_list = [o \in Outcodes |-> <<>>]
    /\ rm_requests = [o \in Outcodes |-> <<>>]
    /\ rm_total = [o \in Outcodes |-> [st \in 1..Len(SearchTypes) |-> Missing]]
    /\ rm_responses = [o \in Outcodes |-> <<>>]
    /\ rm_logged = <<>>
    /\ rm_result = [o \in Outcodes |-> NoResult]
    /\ property_data = NoResult

\* gather of the region tasks: first exception wins, else all results in
\* the order of outcode_list, flattened by the comprehension that follows
RECURSIVE Flatten(_)
Flatten(lists) ==
    IF lists = <<>> THEN <<>> ELSE Head(lists) \o Flatten(Tail(lists))

RmGather(results) ==
    IF property_data # NoResult THEN property_data
    ELSE IF \E o \in Outcodes : IsRaised(results[o])
         THEN (CHOOSE v \in {results[o] : o \in Outcodes} : IsRaised(v))
    ELSE IF \A o \in Outcodes : IsReturned(results[o])
         THEN Returned(Flatten([i \in 1..Len(OutcodeList) |-> results[OutcodeList[i]][2]]))
    ELSE NoResult

\* the task of one outcode starts: first search type, index 0, first fetch
RmTaskStart(o) ==
    /\ property_data = NoResult
    /\ rm_pc[o] = "created"
    /\ rm_pc' = [rm_pc EXCEPT ![o] = "fetching"]
    /\ rm_requests' = [rm_requests EXCEPT ![o] = Append(@, <<1, 0>>)]
    /\ UNCHANGED <<search_type, page_num, last_page, property_list, rm_total,
                   rm_responses, rm_logged, rm_result, property_data>>
    /\ UNCHANGED notRM

\* the walk of the current search type is over: start the next one, or return
RmNextSearchType_return(o, plist, logged, total) ==
    /\ property_list' = [property_list EXCEPT ![o] = plist]
    /\ rm_logged' = logged
    /\ rm_total' = total
    /\ rm_pc' = [rm_pc EXCEPT ![o] = "returned"]
    /\ rm_result' = [rm_result EXCEPT ![o] = Returned(plist)]
    /\ property_data' = RmGather([rm_result EXCEPT ![o] = Returned(plist)])
    /\ UNCHANGED <<search_type, page_num, last_page, rm_requests>>
RmNextSearchType(o, plist, logged, total) ==
    /\ property_list' = [property_list EXCEPT ![o] = plist]
    /\ rm_logged' = logged
    /\ rm_total' = total
    /\ IF search_type[o] < Len(SearchTypes)
         THEN /\ search_type' = [search_type EXCEPT ![o] = @ + 1]
              /\ page_num' = [page_num EXCEPT ![o] = 0]
              /\ last_page' = [last_page EXCEPT ![o] = MaxPages * IDX]
              /\ rm_requests' = [rm_requests EXCEPT ![o] = Append(@, <<search_type[o] + 1, 0>>)]
              /\ UNCHANGED <<rm_pc, rm_result, property_data>>
         ELSE /\ rm_pc' = [rm_pc EXCEPT ![o] = "returned"]
              /\ rm_result' = [rm_result EXCEPT ![o] = Returned(plist)]
              /\ property_data' = RmGather([rm_result EXCEPT ![o] = Returned(plist)])
              /\ UNCHANGED <<search_type, page_num, last_page, rm_requests>>

\* an exception no handler of get_property_data catches ends the task
RmTaskRaises(o, e, total) ==
    /\ rm_pc' = [rm_pc EXCEPT ![o] = "raised"]
    /\ rm_result' = [rm_result EXCEPT ![o] = Raised(e)]
    /\ property_data' = RmGather([rm_result EXCEPT ![o] = Raised(e)])
    /\ rm_total' = total
    /\ UNCHANGED <<search_type, page_num, last_page, property_list, rm_requests, rm_logged>>

\* search_url of line 82: built once per search type, before the loop, so
\* its index parameter is the page_num of that moment, 0
rm_search_url(o, st) == <<"rightmove.co.uk", SearchTypes[st], o, 0>>

\* one call logger.error(msg, *args), with the task, search type and page
\* the call was made at
LogCall(msg, args, o, st, page) == <<msg, o, st, page, args>>

\* the property_list the walk carries on with after the handler of
\* tenacity.RetryError ran
RetryErrorHandler_discard(plist) == <<>>
RetryErrorHandler(plist) == plist

\* fetch raised: RetryError is logged and ends the walk of this search type
RmFetchFails(o, e) ==
    /\ property_data = NoResult
    /\ rm_pc[o] = "fetching"
    /\ IF e = "RetryError"
         THEN RmNextSearchType(o, RetryErrorHandler(property_list[o]),
                               Append(rm_logged,
                                      LogCall("RetryError", <<rm_search_url(o, search_type[o])>>,
                                              o, search_type[o], page_num[o])),
                               rm_total)
         ELSE RmTaskRaises(o, e, rm_total)
    /\ UNCHANGED rm_responses
    /\ UNCHANGED notRM

\* fetch returned a page: lines 97-105, up to the next fetch or the end of
\* the walk
RmFetchReturns(o, total, defect) ==
    /\ property_data = NoResult
    /\ rm_pc[o] = "fetching"
    /\ page_num[o] = 0 \/ Count(total) = rm_total[o][search_type[o]]
    /\ rm_responses' = [rm_responses EXCEPT ![o] =
          Append(@, <<search_type[o], page_num[o],
                      Len(RmPage(o, search_type[o], page_num[o], total, defect).rows)>>)]
    /\ LET st == search_type[o]
           resp == RmPage(o, st, page_num[o], total, defect)
           tot == [rm_total EXCEPT ![o][st] = Count(total)]
           max_page == IF page_num[o] = 0 THEN get_max_page(resp)
                       ELSE Returned(last_page[o])
       IN  IF IsRaised(max_page) THEN RmTaskRaises(o, max_page[2], tot)
           ELSE IF max_page[2] = 0 THEN RmNextSearchType(o, property_list[o], rm_logged, tot)
           ELSE LET parsed == rm_parse_data(resp)
                IN  IF IsRaised(parsed) THEN RmTaskRaises(o, parsed[2], tot)
                    ELSE IF page_num[o] + IDX <= max_page[2]
                    THEN /\ property_list' = [property_list EXCEPT ![o] = @ \o parsed[2]]
                         /\ page_num' = [page_num EXCEPT ![o] = @ + IDX]
                         /\ last_page' = [last_page EXCEPT ![o] = max_page[2]]
                         /\ rm_requests' = [rm_requests EXCEPT ![o] = Append(@, <<st, page_num[o] + IDX>>)]
                         /\ rm_total' = tot
                         /\ UNCHANGED <<rm_pc, search_type, rm_logged, rm_result, property_data>>
                    ELSE RmNextSearchType(o, property_list[o] \o parsed[2], rm_logged, tot)
    /\ UNCHANGED notRM

RmStart == \E o \in Outcodes : RmTaskStart(o)
RmFetchError == \E o \in Outcodes, e \in FetchFailures : RmFetchFails(o, e)
RmFetchPage == \E o \in Outcodes, total \in ResultCounts, defect \in PageDefects :
                  RmFetchReturns(o, total, defect)

NextRM == RmStart \/ RmFetchError \/ RmFetchPage

\* one region task followed through long walks: the first outcode, every
\* fetch returning its page, result counts beyond one page
LongWalkCounts == {30, 2000}

RmLongWalkStart == RmTaskStart(OutcodeList[1])
RmLongWalkPage == \E total \in LongWalkCounts : RmFetchReturns(OutcodeList[1], total, "none")

NextRMLongWalk == RmLongWalkStart \/ RmLongWalkPage

\* indices requested by the walk of one outcode and search type
RequestedIndices(o, st) ==
    {rm_requests[o][i][2] : i \in {j \in 1..Len(rm_requests[o]) : rm_requests[o][j][1] = st}}

\* C6: a walk whose first page reports a total of 10 requests index 0 only;
\* index 24 is never requested.
CE_C6_SinglePageForTen ==
    \A o \in Outcodes, st \in 1..Len(SearchTypes) :
        rm_total[o][st] = Count(10) => RequestedIndices(o, st) = {0}

\* the records of the pages before index k of one walk: pages 0 .. k-IDX
\* were fetched and parsed, and carry the rows 1 .. Min(k, total)
RecordsBefore(o, st, k) ==
    IF k = 0 \/ rm_total[o][st] = Missing THEN {}
    ELSE {RmRecord([id |-> <<o, st, j>>, complete |-> TRUE]) : j \in 1..Min(k, rm_total[o][st][2])}

\* C11: when fetch ended with RetryError at index k of a walk, no index
\* beyond k of that walk is ever requested, and every record collected from
\* the pages before k stays in the task's list and in the list it returns.
Thm_C11_RetryStopsWalkKeepsRecords ==
    \A i \in 1..Len(rm_logged) :
        LET o == rm_logged[i][2]
            st == rm_logged[i][3]
            k == rm_logged[i][4]
        IN  rm_logged[i][1] = "RetryError" =>
              /\ \A j \in RequestedIndices(o, st) : j <= k
              /\ RecordsBefore(o, st, k) \subseteq SeqRange(property_list[o])
              /\ IsReturned(rm_result[o]) =>
                    RecordsBefore(o, st, k) \subseteq SeqRange(rm_result[o][2])

\* a walk failed with RetryError at its second page after the first page
\* gave records, and the task has returned
Wit_C11_RetryAtSecondPage ==
    \E i \in 1..Len(rm_logged) :
        /\ rm_logged[i][1] = "RetryError"
        /\ rm_logged[i][4] = IDX
        /\ RecordsBefore(rm_logged[i][2], rm_logged[i][3], IDX) # {}
        /\ IsReturned(rm_result[rm_logged[i][2]])

\* the records of the pages one walk received: the page at index idx
\* carries the rows idx+1 .. of the total the walk's first page reported
WalkRecords(o, st) ==
    IF rm_total[o][st] = Missing THEN {}
    ELSE UNION {{RmRecord([id |-> <<o, st, rm_responses[o][j][2] + i>>, complete |-> TRUE]) :
                    i \in 1..NumRows(rm_total[o][st][2], rm_responses[o][j][2])} :
                j \in {k \in 1..Len(rm_responses[o]) : rm_responses[o][k][1] = st}}

\* fetch ended with RetryError in the walk of search type st of outcode o
RetryErrorIn(o, st) ==
    \E i \in 1..Len(rm_logged) :
        rm_logged[i][1] = "RetryError" /\ rm_logged[i][2] = o /\ rm_logged[i][3] = st

\* C28: an outcode's task runs one walk per search type, in order, each
\* starting at index 0 with the initial page bound 42*IDX; RetryError in
\* the for-sale walk is followed by the first request of the to-rent walk,
\* and the list the task returns holds the records of both walks.
Thm_C28_OneWalkPerSearchType ==
    \A o \in Outcodes :
        /\ \A i \in 1..Len(rm_requests[o]) :
              IF i = 1 THEN rm_requests[o][i] = <<1, 0>>
              ELSE \/ rm_requests[o][i] = <<rm_requests[o][i-1][1], rm_requests[o][i-1][2] + IDX>>
                   \/ rm_requests[o][i] = <<rm_requests[o][i-1][1] + 1, 0>>
        /\ (rm_pc[o] = "fetching" /\ page_num[o] = 0) => last_page[o] = MaxPages * IDX
        /\ RetryErrorIn(o, 1) => <<2, 0>> \in SeqRange(rm_requests[o])
        /\ IsReturned(rm_result[o]) =>
              WalkRecords(o, 1) \cup WalkRecords(o, 2) \subseteq SeqRange(rm_result[o][2])

\* the for-sale walk of an outcode gave records and then failed with
\* RetryError, the to-rent walk gave records, and the task has returned
Wit_C28_RentAfterFailedSale ==
    \E o \in Outcodes :
        /\ RetryErrorIn(o, 1)
        /\ WalkRecords(o, 1) # {}
        /\ WalkRecords(o, 2) # {}
        /\ IsReturned(rm_result[o])

\* C26: a walk issues at most 42 page requests per outcode and search type
\* and requests no result index beyond 1000.
CE_C26_WithinSiteCeiling ==
    \A o \in Outcodes, st \in 1..Len(SearchTypes) :
        /\ Cardinality(RequestedIndices(o, st)) <= MaxPages
        /\ \A idx \in RequestedIndices(o, st) : idx <= 1000

\* the pages with rows that an outcode's task received
PagesWithRows(o) == SelectSeq(rm_responses[o], LAMBDA page : page[3] > 0)

\* each outcode returned one page, with 2 listing rows, and nothing else
TwoRegionsOnePageOfTwo ==
    \A o \in Outcodes :
        \E st \in 1..Len(SearchTypes) : PagesWithRows(o) = <<<<st, 0, 2>>>>

\* C23: when each of the two outcodes returned one page of 2 listing rows,
\* the session returns exactly 4 records, no two of them equal, all with the
\* same listing_source.
Thm_C23_TwoRegionsFourRecords ==
    (IsReturned(property_data) /\ TwoRegionsOnePageOfTwo)
        => /\ Len(property_data[2]) = 4
           /\ NoRepeats(property_data[2])
           /\ \A i \in 1..Len(property_data[2]) :
                 property_data[2][i].listing_source = property_data[2][1].listing_source

\* the session returned after each outcode gave one page of 2 rows
Wit_C23_ScenarioRan ==
    IsReturned(property_data) /\ TwoRegionsOnePageOfTwo

\* C13: the collection the Rightmove session returns holds no two records
\* with the same pair (property_id, listing_source), even when the site
\* returned one listing for two outcodes or on two pages of a walk.
CE_C13_NoDuplicateRecords ==
    IsReturned(property_data) => NoRepeats(property_data[2])

\* number of % conversion specifiers in a message passed to logger.error:
\* every message in the source is the bare name of an exception class
Specifiers(msg) == 0

\* LogRecord.getMessage: str(msg) if args is empty, else msg % args, which
\* raises TypeError unless the specifiers consume every argument;
\* Handler.emit catches the error and writes no entry
Formats(call) == call[5] = <<>> \/ Len(call[5]) = Specifiers(call[1])

\* the entries that reach the handlers of the logger
RmSink == SelectSeq(rm_logged, Formats)

\* the URL fetch was called with for index page of a walk
rm_fetch_url(o, st, page) == <<"rightmove.co.uk", SearchTypes[st], o, page>>

\* C15: every terminal fetch failure of a walk, retries exhausted or
\* non-transient, has an entry in the logging sink that carries the failing
\* URL and the error kind.
CE_C15_TerminalFailureLogged ==
    /\ \A i \in 1..Len(rm_logged) :
          rm_logged[i][1] = "RetryError" =>
              \E j \in 1..Len(RmSink) :
                  /\ RmSink[j][1] = "RetryError"
                  /\ rm_fetch_url(rm_logged[i][2], rm_logged[i][3], rm_logged[i][4])
                         \in SeqRange(RmSink[j][5])
    /\ \A o \in Outcodes, e \in NonTransientErrors :
          rm_result[o] = Raised(e) =>
              \E j \in 1..Len(RmSink) : RmSink[j][1] = e /\ RmSink[j][2] = o

\* the walk of an outcode failed in one of the ways the pipeline expects:
\* retries exhausted, no result-count indicator, no or malformed data block
WalkFailed(o) ==
    \/ rm_result[o] \in {Raised("ValueError"), Raised("AttributeError"), Raised("KeyError")}
    \/ \E i \in 1..Len(rm_logged) : rm_logged[i][1] = "RetryError" /\ rm_logged[i][2] = o

\* C10: once the session has ended with the walk of one outcode failed, the
\* collection it returns contains the records of every other outcode whose
\* task returned.
CE_C10_RegionFailureIsolated ==
    \A o \in Outcodes :
        (/\ property_data # NoResult
         /\ IsReturned(rm_result[o])
         /\ rm_result[o][2] # <<>>
         /\ \E o2 \in Outcodes \ {o} : WalkFailed(o2))
            => /\ IsReturned(property_data)
               /\ SeqRange(rm_result[o][2]) \subseteq SeqRange(property_data[2])

(***************************************************************************)
(* onthemarket_scraper/FetchPropertyLinks.py: fetch_all_property_urls and  *)
(* get_zc_property_urls.                                                   *)
(***************************************************************************)

\* get_zipcodes()
ZipcodeList == <<"e1", "e2">>
Zipcodes == SeqRange(ZipcodeList)

\* for search_type in ["for-sale", "to-rent"]
OtmSearchTypes == <<"for-sale", "to-rent">>

\* a row of the 'properties' array: a listing carries "property-link", an
\* advertisement does not.  Links are numbered; the number stands for the
\* path, so numeric order is the order of the URL strings.
Listing(n) == [link |-> <<"property-link", n>>]
Advert == [link |-> Missing]

\* 'properties' arrays a result page can carry
OtmRowLists ==
    {<<>>, <<Listing(1)>>, <<Advert>>, <<Listing(1), Listing(2)>>,
     <<Listing(1), Advert>>, <<Listing(2), Advert>>, <<Listing(2), Listing(3)>>}

\* the links that occur on some result page
Links == UNION {{rows[i].link[2] : i \in {j \in 1..Len(rows) : rows[j].link # Missing}} :
                   rows \in OtmRowLists}

\* Python's  row == key  for a row of the 'properties' array and a str: a
\* dict never equals a str
RowEqualsStr(row, key) == FALSE

\* Python's  key in rows  for a list: true only if an element equals key
KeyInList(key, rows) == \E i \in 1..Len(rows) : RowEqualsStr(rows[i], key)

\* the for loop over rows: append the link, or log the KeyError and go on
RECURSIVE OtmCollect(_, _, _, _)
OtmCollect(rows, property_urls, logged, where) ==
    IF rows = <<>> THEN <<property_urls, logged>>
    ELSE IF Head(rows).link = Missing
         THEN OtmCollect(Tail(rows), property_urls, Append(logged, <<"KeyError">> \o where), where)
         ELSE OtmCollect(Tail(rows), Append(property_urls, Head(rows).link[2]), logged, where)

InitOTM ==
    /\ otm_pc = [z \in Zipcodes |-> "created"]
    /\ otm_search_type = [z \in Zipcodes |-> 1]
    /\ otm_page_num = [z \in Zipcodes |-> 0]
    /\ all_urls = [z \in Zipcodes |-> <<>>]
    /\ otm_requests = [z \in Zipcodes |-> <<>>]
    /\ otm_responses = [z \in Zipcodes |-> <<>>]
    /\ otm_logged = <<>>
    /\ otm_result = [z \in Zipcodes |-> NoResult]
    /\ property_links = NoResult
    /\ otm_data_pc = [n \in Links |-> "none"]
    /\ otm_data_result = [n \in Links |-> NoResult]
    /\ otm_data_logged = <<>>
    /\ otm_data_requests = <<>>
    /\ otm_property_lists = NoResult

\* np.unique: the distinct elements in ascending order
greatest(S) == CHOOSE x \in S : \A y \in S : x >= y
least(S) == CHOOSE x \in S : \A y \in S : x <= y

RECURSIVE SortedSeq(_)
SortedSeq(S) ==
    IF S = {} THEN <<>>
    ELSE <<least(S)>> \o SortedSeq(S \ {least(S)})

list_as_is(s) == s
np_unique(s) == SortedSeq(SeqRange(s))

\* gather of the zipcode tasks, the flattening comprehension and np.unique
OtmGather(results) ==
    IF property_links # NoResult THEN property_links
    ELSE IF \E z \in Zipcodes : IsRaised(results[z])
         THEN (CHOOSE v \in {results[z] : z \in Zipcodes} : IsRaised(v))
    ELSE IF \A z \in Zipcodes : IsReturned(results[z])
         THEN Returned(np_unique(Flatten([i \in 1..Len(ZipcodeList) |-> results[ZipcodeList[i]][2]])))
    ELSE NoResult

\* the task of one zipcode starts: "for-sale", page 0, first fetch
OtmTaskStart(z) ==
    /\ property_links = NoResult
    /\ otm_pc[z] = "created"
    /\ otm_pc' = [otm_pc EXCEPT ![z] = "fetching"]
    /\ otm_requests' = [otm_requests EXCEPT ![z] = Append(@, <<1, 0>>)]
    /\ UNCHANGED <<otm_search_type, otm_page_num, all_urls, otm_responses, otm_logged,
                   otm_result, property_links>>
    /\ UNCHANGED otmDataVars
    /\ UNCHANGED notOTM

\* "break" at the end of the while body: the loop over pages is left after
\* its first pass, whatever page_num has become; the for loop goes on to the
\* next search type (page_num = 0 again) or get_zc_property_urls returns
OtmBreak(z, urls, next_page) ==
    /\ all_urls' = [all_urls EXCEPT ![z] = urls]
    /\ IF otm_search_type[z] < Len(OtmSearchTypes)
         THEN /\ otm_search_type' = [otm_search_type EXCEPT ![z] = @ + 1]
              /\ otm_page_num' = [otm_page_num EXCEPT ![z] = 0]
              /\ otm_requests' = [otm_requests EXCEPT ![z] = Append(@, <<otm_search_type[z] + 1, 0>>)]
              /\ UNCHANGED <<otm_pc, otm_result, property_links>>
         ELSE /\ otm_pc' = [otm_pc EXCEPT ![z] = "returned"]
              /\ otm_result' = [otm_result EXCEPT ![z] = Returned(urls)]
              /\ property_links' = OtmGather([otm_result EXCEPT ![z] = Returned(urls)])
              /\ otm_page_num' = [otm_page_num EXCEPT ![z] = next_page]
              /\ UNCHANGED <<otm_search_type, otm_requests>>

\* an exception other than RetryError leaves get_zc_property_urls
OtmTaskRaises(z, e) ==
    /\ otm_pc' = [otm_pc EXCEPT ![z] = "raised"]
    /\ otm_result' = [otm_result EXCEPT ![z] = Raised(e)]
    /\ property_links' = OtmGather([otm_result EXCEPT ![z] = Raised(e)])
    /\ UNCHANGED <<otm_search_type, otm_page_num, all_urls, otm_requests, otm_logged>>

\* fetch raised
OtmFetchFails(z, e) ==
    /\ property_links = NoResult
    /\ otm_pc[z] = "fetching"
    /\ IF e = "RetryError"
         THEN /\ otm_logged' = Append(otm_logged, <<"RetryError", z, otm_search_type[z], otm_page_num[z]>>)
              /\ OtmBreak(z, all_urls[z], otm_page_num[z])
         ELSE OtmTaskRaises(z, e)
    /\ UNCHANGED otm_responses
    /\ UNCHANGED otmDataVars
    /\ UNCHANGED notOTM

\* fetch returned a page without the __OTM__.jsonData block: re.search
\* gives None and .group raises AttributeError
OtmFetchNoBlock(z) ==
    /\ property_links = NoResult
    /\ otm_pc[z] = "fetching"
    /\ OtmTaskRaises(z, "AttributeError")
    /\ UNCHANGED otm_responses
    /\ UNCHANGED otmDataVars
    /\ UNCHANGED notOTM

\* fetch returned a page with its 'properties' rows: lines 76-98
OtmFetchReturns(z, rows) ==
    /\ property_links = NoResult
    /\ otm_pc[z] = "fetching"
    /\ otm_responses' = [otm_responses EXCEPT ![z] =
                            Append(@, <<otm_search_type[z], otm_page_num[z], rows>>)]
    /\ LET where == <<z, otm_search_type[z], otm_page_num[z]>>
           collected ==
               IF Len(rows) # 0
                 THEN IF Len(rows) = 1 /\ ~KeyInList("property-link", rows)
                        THEN <<<<>>, otm_logged>>
                        ELSE OtmCollect(rows, <<>>, otm_logged, where)
                 ELSE <<<<>>, otm_logged>>
       IN  /\ otm_logged' = collected[2]
           /\ OtmBreak(z, all_urls[z] \o collected[1],
                       IF Len(rows) # 0 THEN otm_page_num[z] + 1 ELSE otm_page_num[z])
    /\ UNCHANGED otmDataVars
    /\ UNCHANGED notOTM

OtmStart == \E z \in Zipcodes : OtmTaskStart(z)
OtmFetchError == \E z \in Zipcodes, e \in FetchFailures : OtmFetchFails(z, e)
OtmFetchBadPage == \E z \in Zipcodes : OtmFetchNoBlock(z)
OtmFetchPage == \E z \in Zipcodes, rows \in OtmRowLists : OtmFetchReturns(z, rows)

\* the links of all zipcode tasks, as gather and the comprehension give them
GatheredLinks == Flatten([i \in 1..Len(ZipcodeList) |-> otm_result[ZipcodeList[i]][2]])

\* C18: the link collection handed to the detail stage holds every link a
\* zipcode task returned, and each of them once.
Thm_C18_LinksDeduplicated ==
    IsReturned(property_links) =>
        /\ NoRepeats(property_links[2])
        /\ SeqRange(property_links[2]) = SeqRange(GatheredLinks)

\* the link stage returned, and the zipcode tasks had returned some link
\* more than once
Wit_C18_OverlappingLinks ==
    /\ IsReturned(property_links)
    /\ ~NoRepeats(GatheredLinks)

HasListing(rows) == \E i \in 1..Len(rows) : rows[i].link # Missing

\* the walk of search type st of zipcode z has been left
OtmWalkOver(z, st) == otm_search_type[z] > st \/ otm_pc[z] \in {"returned", "raised"}

\* the pages the walk of search type st of zipcode z received, in order
WalkResponses(z, st) == SelectSeq(otm_responses[z], LAMBDA page : page[1] = st)

\* the walk met a terminal fetch failure
WalkFetchFailed(z, st) ==
    \/ \E i \in 1..Len(otm_logged) :
          otm_logged[i][1] = "RetryError" /\ otm_logged[i][2] = z /\ otm_logged[i][3] = st
    \/ IsRaised(otm_result[z]) /\ otm_search_type[z] = st

\* C25: a walk goes from FetchPage to Done only on a page without results
\* or on a fetch failure: a walk that is over either failed or received a
\* page without listing rows last.
CE_C25_DoneOnlyWithoutResults ==
    \A z \in Zipcodes, st \in 1..Len(OtmSearchTypes) :
        (<<st, 0>> \in SeqRange(otm_requests[z]) /\ OtmWalkOver(z, st)) =>
            \/ WalkFetchFailed(z, st)
            \/ /\ WalkResponses(z, st) # <<>>
               /\ ~HasListing(WalkResponses(z, st)[Len(WalkResponses(z, st))][3])

\* C27: on a result page with exactly one row the row is discarded only
\* when it carries no property link: once the zipcode task has returned,
\* the link of every lone row that has one is among the task's links.
CE_C27_LoneListingKept ==
    \A z \in Zipcodes :
        IsReturned(otm_result[z]) =>
            \A i \in 1..Len(otm_responses[z]) :
                LET rows == otm_responses[z][i][3]
                IN  (Len(rows) = 1 /\ HasListing(rows))
                        => rows[1].link[2] \in SeqRange(otm_result[z][2])

\* C7: a walk starts at page 0 and is left only after a page without rows or
\* a terminal fetch failure: every page received with at least one row is
\* followed by a request for the next page.
CE_C7_WalkUntilEmptyPage ==
    \A z \in Zipcodes :
        /\ \A i \in 1..Len(otm_requests[z]) :
              otm_requests[z][i][2] = 0
                  \/ <<otm_requests[z][i][1], otm_requests[z][i][2] - 1>> \in SeqRange(otm_requests[z])
        /\ \A i \in 1..Len(otm_responses[z]) :
              LET st == otm_responses[z][i][1]
                  page == otm_responses[z][i][2]
                  rows == otm_responses[z][i][3]
              IN  (HasListing(rows) /\ OtmWalkOver(z, st))
                      => <<st, page + 1>> \in SeqRange(otm_requests[z])

(***************************************************************************)
(* zoopla_scraper/FetchData.py: get_data, get_lists, parse_data,           *)
(* parse_price.                                                            *)
(***************************************************************************)

\* np.nan
NaN == <<"nan">>

\* price texts of a listing row, character by character
PriceSale == <<"L", "9", "5", "0", ",", "0", "0", "0">>
PriceRent == <<"L", "1", ",", "2", "0", "0", " ", "p", "c", "m">>
PricePOA == <<"P", "O", "A">>

Digits == {"0", "1", "2", "3", "4", "5", "6", "7", "8", "9"}

\* re.sub(r"[^\d\.]", "", row)
StripNonNumeric(text) == SelectSeq(text, LAMBDA c : c \in Digits \cup {"."})

\* float(s) succeeds on digits with at most one period, and raises
\* ValueError otherwise
FloatParses(s) ==
    /\ \E i \in 1..Len(s) : s[i] \in Digits
    /\ Cardinality({i \in 1..Len(s) : s[i] = "."}) <= 1

\* the value of a digit character, and of a run of digits
DigitChars == <<"0", "1", "2", "3", "4", "5", "6", "7", "8", "9">>
DigitValue(c) == (CHOOSE i \in 1..Len(DigitChars) : DigitChars[i] = c) - 1

RECURSIVE IntOf(_)
IntOf(s) ==
    IF s = <<>> THEN 0
    ELSE IntOf(SubSeq(s, 1, Len(s) - 1)) * 10 + DigitValue(s[Len(s)])

\* the digits before and after the period of a numeral
WholePart(s) == IF \E i \in 1..Len(s) : s[i] = "."
                  THEN SubSeq(s, 1, (CHOOSE i \in 1..Len(s) : s[i] = ".") - 1)
                  ELSE s
FracPart(s) == IF \E i \in 1..Len(s) : s[i] = "."
                 THEN SubSeq(s, (CHOOSE i \in 1..Len(s) : s[i] = ".") + 1, Len(s))
                 ELSE <<>>

RECURSIVE StripTrailingZeros(_)
StripTrailingZeros(s) ==
    IF s # <<>> /\ s[Len(s)] = "0" THEN StripTrailingZeros(SubSeq(s, 1, Len(s) - 1)) ELSE s

\* a float: its whole part and the digits of its fraction
Float(whole, frac) == <<"float", whole, frac>>

\* float(s) for a numeral s that parses
PyFloat(s) == Float(IntOf(WholePart(s)),
                    [i \in 1..Len(StripTrailingZeros(FracPart(s))) |->
                        DigitValue(StripTrailingZeros(FracPart(s))[i])])

\* parse_price(row, for_sale) of zoopla_scraper/FetchData.py: row is the
\* price text; in the rent branch row['price'] indexes that text with a str,
\* which raises TypeError, and only ValueError is caught
zoopla_parse_price(row, for_sale) ==
    IF ~FloatParses(StripNonNumeric(row))
      THEN Returned([price |-> NaN, price_currency |-> NaN, rent_freq |-> NaN])
    ELSE IF for_sale
      THEN Returned([price |-> PyFloat(StripNonNumeric(row)),
                     price_currency |-> row[1],
                     rent_freq |-> NaN])
    ELSE Raised("TypeError")

\* the dictionary parse_data builds from one row; row['listingId'] is the
\* first key read, before the price is parsed
ZooplaRecord(row, for_sale) ==
    IF ~row.complete THEN Raised("KeyError")
    ELSE LET pp == zoopla_parse_price(row.price, for_sale)
         IN  IF IsRaised(pp) THEN pp
             ELSE Returned([property_id |-> row.id,
                            transactionType |-> IF for_sale THEN "buy" ELSE "rent",
                            price |-> pp[2].price,
                            price_currency |-> pp[2].price_currency,
                            rent_freq |-> pp[2].rent_freq,
                            listing_source |-> "zoopla"])

RECURSIVE ZooplaParseRows(_, _, _)
ZooplaParseRows(rows, for_sale, lists) ==
    IF rows = <<>> THEN Returned(lists)
    ELSE LET rec == ZooplaRecord(Head(rows), for_sale)
         IN  IF IsRaised(rec) THEN rec
             ELSE ZooplaParseRows(Tail(rows), for_sale, Append(lists, rec[2]))

\* parse_data(property_lists, for_sale) of zoopla_scraper/FetchData.py
zoopla_parse_data(property_lists, for_sale) == ZooplaParseRows(property_lists, for_sale, <<>>)

\* a listing row of a page payload
Row(n, complete, price) == [id |-> n, complete |-> complete, price |-> price]

\* regularListingsFormatted arrays a Zoopla page can carry
ZooplaRowLists ==
    {<<>>,
     <<Row(1, TRUE, PriceSale)>>,
     <<Row(3, TRUE, PricePOA)>>,
     <<Row(1, TRUE, PriceRent), Row(2, TRUE, PricePOA)>>,
     <<Row(1, TRUE, PriceSale), Row(2, FALSE, PriceSale)>>}

\* exceptions of get_lists: no script#__NEXT_DATA__ element, the pattern
\* does not match, the JSON lacks a key on the path to the listings
GetListsErrors == {"IndexError", "AttributeError", "KeyError"}

\* most pages one call of get_data opens
MaxZooplaRequests == 4

InitZoopla ==
    /\ z_pc = "idle"
    /\ z_for_sale = TRUE
    /\ z_page_num = 1
    /\ full_list = <<>>
    /\ z_requests = <<>>
    /\ z_logged = <<>>
    /\ z_result = NoResult

\* get_data(for_sale)
ZGetData(for_sale) ==
    /\ z_pc = "idle"
    /\ z_pc' = "loop"
    /\ z_for_sale' = for_sale
    /\ UNCHANGED <<z_page_num, full_list, z_requests, z_logged, z_result>>
    /\ UNCHANGED notZoopla

CanOpenPage == z_pc = "loop" /\ Len(z_requests) < MaxZooplaRequests

\* get_url or, on page 1, show_results raises: both stand outside the try
\* block, so the exception leaves get_data
ZPageLoadRaises(e) ==
    /\ CanOpenPage
    /\ e = "NoSuchElementException" => z_page_num = 1
    /\ z_requests' = Append(z_requests, z_page_num)
    /\ z_pc' = "raised"
    /\ z_result' = Raised(e)
    /\ UNCHANGED <<z_for_sale, z_page_num, full_list, z_logged>>
    /\ UNCHANGED notZoopla

\* the handlers of get_data: KeyError returns full_list, any other
\* exception is logged and the while loop runs again with the same page_num
ZHandle(e) ==
    /\ z_logged' = Append(z_logged, <<e, z_page_num>>)
    /\ IF e = "KeyError"
         THEN /\ z_pc' = "returned"
              /\ z_result' = Returned(full_list)
         ELSE /\ z_pc' = "loop"
              /\ z_result' = z_result
    /\ UNCHANGED <<z_for_sale, z_page_num, full_list>>

\* get_lists raises
ZGetListsRaises(e) ==
    /\ CanOpenPage
    /\ z_requests' = Append(z_requests, z_page_num)
    /\ ZHandle(e)
    /\ UNCHANGED notZoopla

\* get_lists returns the listings of the page
ZGetListsReturns(property_lists) ==
    /\ CanOpenPage
    /\ z_requests' = Append(z_requests, z_page_num)
    /\ IF Len(property_lists) # 0
         THEN LET parsed == zoopla_parse_data(property_lists, z_for_sale)
              IN  IF IsRaised(parsed) THEN ZHandle(parsed[2])
                  ELSE /\ full_list' = full_list \o parsed[2]
                       /\ z_page_num' = z_page_num + 1
                       /\ UNCHANGED <<z_pc, z_for_sale, z_logged, z_result>>
         ELSE /\ z_pc' = "returned"
              /\ z_result' = Returned(full_list)
              /\ UNCHANGED <<z_for_sale, z_page_num, full_list, z_logged>>
    /\ UNCHANGED notZoopla

ZCall == \E for_sale \in BOOLEAN : ZGetData(for_sale)
ZPageLoad == \E e \in {"TimeoutException", "NoSuchElementException"} : ZPageLoadRaises(e)
ZExtractError == \E e \in GetListsErrors : ZGetListsRaises(e)
ZPage == \E property_lists \in ZooplaRowLists : ZGetListsReturns(property_lists)

NextZoopla == ZCall \/ ZPageLoad \/ ZExtractError \/ ZPage

\* C16: in every record get_data collected, rent_freq is unknown when the
\* transaction type is buy and present when it is rent.
CE_C16_RentFreqIffRent ==
    \A i \in 1..Len(full_list) :
        /\ full_list[i].transactionType = "buy" => full_list[i].rent_freq = NaN
        /\ full_list[i].transactionType = "rent" => full_list[i].rent_freq # NaN

\* C19: the pages of the walk are opened in strictly increasing page order.
CE_C19_PagesStrictlyIncreasing ==
    \A i \in 1..(Len(z_requests) - 1) : z_requests[i] < z_requests[i + 1]

\* C8: a walk that met an extraction error (missing key, missing script
\* block, regex miss, row-parse exception) has ended and returned the records
\* collected so far; no page is opened twice; get_data does not raise it.
CE_C8_ZooplaStopsOnError ==
    /\ z_logged # <<>> => (z_pc = "returned" /\ z_result = Returned(full_list))
    /\ NoRepeats(z_requests)

(***************************************************************************)
(* onthemarket_scraper/main.py: scrape_from_otm; FetchPropertyData.py:     *)
(* fetch_all_property_data, get_property_data, parse_property_data,        *)
(* parse_price.  The detail stage starts from the links the link stage     *)
(* returned.                                                               *)
(***************************************************************************)

\* Python's None
PyNone == [None |-> TRUE]

\* str.split(): the maximal runs of characters other than whitespace
RECURSIVE SplitAcc(_, _, _)
SplitAcc(text, word, words) ==
    IF text = <<>> THEN (IF word = <<>> THEN words ELSE Append(words, word))
    ELSE IF Head(text) = " "
         THEN SplitAcc(Tail(text), <<>>, IF word = <<>> THEN words ELSE Append(words, word))
         ELSE SplitAcc(Tail(text), Append(word, Head(text)), words)

str_split(text) == SplitAcc(text, <<>>, <<>>)

\* what the detail page of a link can be like: as expected, without the
\* __OTM__.jsonData block, or with a price text that holds no number
DetailDefects == {"none", "no_block", "poa"}

\* the detail page the site serves for link n; a listing is for sale or to
\* rent whatever search found it
\* keys of json_data that parse_property_data reads and a payload may lack
OptionalKeys == {"bedrooms", "minimum-area"}

\* json_data of a detail page; a key in absent is not in the payload
DetailJson(n, for_sale, price, absent) ==
    [id |-> n,
     for_sale |-> for_sale,
     bedrooms |-> IF "bedrooms" \in absent THEN Missing ELSE Count(2),
     minimum_area |-> IF "minimum-area" \in absent THEN Missing ELSE Count(50),
     price |-> price,
     canonical_url |-> n]

DetailPage(n, defect) ==
    LET for_sale == n % 2 = 1
    IN  [block |-> defect # "no_block",
         json_data |-> DetailJson(n, for_sale,
                                  IF defect = "poa" THEN PricePOA
                                  ELSE IF for_sale THEN PriceSale ELSE PriceRent,
                                  {})]

\* parse_price(json_data) of onthemarket_scraper/FetchPropertyData.py; the
\* entries of the dict literal are evaluated in order
otm_parse_price(json_data) ==
    LET text == json_data.price
        words == str_split(text)
    IN  IF ~json_data.for_sale /\ Len(words) < 1 THEN Raised("IndexError")
        ELSE LET price_text == IF json_data.for_sale THEN text ELSE words[1]
             IN  IF ~FloatParses(StripNonNumeric(price_text)) THEN Raised("ValueError")
                 ELSE IF Len(text) < 1 THEN Raised("IndexError")
                 ELSE IF ~json_data.for_sale /\ Len(words) < 2 THEN Raised("IndexError")
                 ELSE Returned([price |-> PyFloat(StripNonNumeric(price_text)),
                                price_currency |-> text[1],
                                rent_freq |-> IF json_data.for_sale THEN NaN ELSE words[2]])

\* parse_displaySize(json_data): the one key whose absence is handled
parse_displaySize(json_data) ==
    IF json_data.minimum_area = Missing THEN NaN ELSE json_data.minimum_area

\* parse_property_data(resp), called on day today; the entries of the dict
\* literal are evaluated in order, 'bedrooms' before 'price'
parse_property_data(resp, today) ==
    IF ~resp.block THEN Raised("AttributeError")
    ELSE LET json_data == resp.json_data
             pp == otm_parse_price(json_data)
         IN  IF json_data.bedrooms = Missing THEN Raised("KeyError")
             ELSE IF IsRaised(pp) THEN pp
             ELSE Returned([property_id |-> json_data.id,
                            transactionType |-> IF json_data.for_sale THEN "buy" ELSE "rent",
                            bedrooms |-> json_data.bedrooms,
                            price |-> pp[2].price,
                            price_currency |-> pp[2].price_currency,
                            rent_freq |-> pp[2].rent_freq,
                            listing_url |-> json_data.canonical_url,
                            listing_source |-> "OnTheMarket",
                            firstVisibleDate |-> today,
                            displaySize |-> parse_displaySize(json_data)])

\* gather of the link tasks: first exception wins, else the results in the
\* order of property_urls; the list is returned as gather gave it
OtmDataGather(results) ==
    LET property_urls == property_links[2]
    IN  IF otm_property_lists # NoResult THEN otm_property_lists
        ELSE IF \E n \in SeqRange(property_urls) : IsRaised(results[n])
             THEN results[CHOOSE n \in SeqRange(property_urls) : IsRaised(results[n])]
        ELSE IF \A n \in SeqRange(property_urls) : IsReturned(results[n])
             THEN Returned([i \in 1..Len(property_urls) |-> results[property_urls[i]][2]])
        ELSE NoResult

\* await fetch_all_property_urls(...) raised: scrape_from_otm has no handler
OtmLinksRaised ==
    /\ IsRaised(property_links)
    /\ otm_property_lists = NoResult
    /\ otm_property_lists' = property_links
    /\ UNCHANGED <<otm_data_pc, otm_data_result, otm_data_logged, otm_data_requests>>
    /\ UNCHANGED <<otm_pc, otm_search_type, otm_page_num, all_urls, otm_requests,
                   otm_responses, otm_logged, otm_result, property_links>>
    /\ UNCHANGED notOTM

\* fetch_all_property_data(property_urls): one task per link, each runs up
\* to its await fetch; gather of no task returns the empty list
OtmDataStart_per_zipcode ==
    /\ property_links = NoResult
    /\ otm_property_lists = NoResult
    /\ \A n \in Links : otm_data_pc[n] = "none"
    /\ \E z \in Zipcodes :
          /\ otm_pc[z] = "returned"
          /\ otm_result[z][2] # <<>>
          /\ otm_data_pc' = [n \in Links |->
                                IF n \in SeqRange(otm_result[z][2]) THEN "fetching" ELSE "none"]
          /\ otm_data_requests' = otm_result[z][2]
    /\ UNCHANGED <<otm_data_result, otm_data_logged, otm_property_lists>>
    /\ UNCHANGED <<otm_pc, otm_search_type, otm_page_num, all_urls, otm_requests,
                   otm_responses, otm_logged, otm_result, property_links>>
    /\ UNCHANGED notOTM
OtmDataStart ==
    /\ IsReturned(property_links)
    /\ otm_property_lists = NoResult
    /\ \A n \in Links : otm_data_pc[n] = "none"
    /\ otm_data_pc' = [n \in Links |->
                          IF n \in SeqRange(property_links[2]) THEN "fetching" ELSE "none"]
    /\ otm_data_requests' = property_links[2]
    /\ otm_property_lists' = IF property_links[2] = <<>> THEN Returned(<<>>) ELSE NoResult
    /\ UNCHANGED <<otm_data_result, otm_data_logged>>
    /\ UNCHANGED <<otm_pc, otm_search_type, otm_page_num, all_urls, otm_requests,
                   otm_responses, otm_logged, otm_result, property_links>>
    /\ UNCHANGED notOTM

\* get_property_data ends with value v (a returned value or an exception)
OtmDataTaskEnds(n, v, logged) ==
    /\ otm_property_lists = NoResult
    /\ otm_data_pc[n] = "fetching"
    /\ otm_data_pc' = [otm_data_pc EXCEPT ![n] = IF IsRaised(v) THEN "raised" ELSE "returned"]
    /\ otm_data_result' = [otm_data_result EXCEPT ![n] = v]
    /\ otm_data_logged' = logged
    /\ UNCHANGED otm_data_requests
    /\ otm_property_lists' = OtmDataGather([otm_data_result EXCEPT ![n] = v])
    /\ UNCHANGED <<otm_pc, otm_search_type, otm_page_num, all_urls, otm_requests,
                   otm_responses, otm_logged, otm_result, property_links>>
    /\ UNCHANGED notOTM

\* fetch raised: on RetryError the handler logs and the function falls off
\* its end, which returns None; any other exception leaves the task
OtmDataFetchFails(n, e) ==
    IF e = "RetryError"
      THEN OtmDataTaskEnds(n, Returned(PyNone), Append(otm_data_logged, <<"RetryError", n>>))
      ELSE OtmDataTaskEnds(n, Raised(e), otm_data_logged)

\* fetch returned the detail page: the task ends with what
\* parse_property_data gives
OtmDataFetchReturns(n, defect) ==
    OtmDataTaskEnds(n, parse_property_data(DetailPage(n, defect), rc_today), otm_data_logged)

OtmDataFetchError == \E n \in Links, e \in FetchFailures : OtmDataFetchFails(n, e)
OtmDataFetchPage == \E n \in Links, defect \in DetailDefects : OtmDataFetchReturns(n, defect)

NextOTM ==
    \/ OtmStart \/ OtmFetchError \/ OtmFetchBadPage \/ OtmFetchPage
    \/ OtmLinksRaised \/ OtmDataStart \/ OtmDataFetchError \/ OtmDataFetchPage

\* an element is a record whose property_id, price and transactionType
\* were parsed
MandatoryFieldsParsed(v) ==
    /\ {"property_id", "price", "transactionType"} \subseteq DOMAIN v
    /\ v.price # NaN

\* C14: every element of the collection scrape_from_otm returns is a record
\* with parsed property_id, price and transaction type; a link whose fetch
\* failed contributes no element.
CE_C14_OnlyParsedRecords ==
    IsReturned(otm_property_lists) =>
        \A i \in 1..Len(otm_property_lists[2]) : MandatoryFieldsParsed(otm_property_lists[2][i])

\* number of positions of s that hold x
Occurrences(s, x) == Cardinality({i \in 1..Len(s) : s[i] = x})

\* fetch_all_property_data has been called
DetailStageStarted ==
    IsReturned(property_links) /\ (otm_property_lists # NoResult \/ otm_data_requests # <<>>)

\* C30: a detail page is requested only after every zipcode's link task
\* has returned and np.unique has given the list of distinct links, and the
\* detail stage calls fetch exactly once for each link of that list and for
\* nothing else.
Thm_C30_DetailAfterLinks ==
    /\ otm_data_requests # <<>> =>
          /\ \A z \in Zipcodes : otm_pc[z] = "returned"
          /\ IsReturned(property_links)
          /\ NoRepeats(property_links[2])
          /\ SeqRange(otm_data_requests) \subseteq SeqRange(property_links[2])
    /\ DetailStageStarted =>
          \A n \in SeqRange(GatheredLinks) : Occurrences(otm_data_requests, n) = 1

\* the detail stage has fetched two or more links, and the zipcode tasks
\* had returned some link more than once
Wit_C30_DetailOfOverlappingLinks ==
    /\ Len(otm_data_requests) >= 2
    /\ ~NoRepeats(GatheredLinks)

\* position of the first occurrence of x in s
FirstIndex(s, x) == CHOOSE i \in 1..Len(s) : s[i] = x /\ \A j \in 1..(i - 1) : s[j] # x

\* C20 as stated, for OnTheMarket: the links handed on, and with them the
\* records, appear in the order of the region list, and within a region in
\* the order sale page then rent page.
CE_C20_RegionOrderKept ==
    IsReturned(property_links) =>
        \A i, j \in 1..Len(property_links[2]) :
            i < j => FirstIndex(GatheredLinks, property_links[2][i])
                        < FirstIndex(GatheredLinks, property_links[2][j])

\* position of an outcode in the region list
OutcodeIndex(o) == CHOOSE k \in 1..Len(OutcodeList) : OutcodeList[k] = o

\* region, search type and result index of a Rightmove record
RmOrderKey(rec) == <<OutcodeIndex(rec.property_id[1]), rec.property_id[2], rec.property_id[3]>>

LexLess(a, b) ==
    \/ a[1] < b[1]
    \/ a[1] = b[1] /\ a[2] < b[2]
    \/ a[1] = b[1] /\ a[2] = b[2] /\ a[3] < b[3]

\* the records of the listings of one outcode's own result pages
RmOwnRecords(recs) == SelectSeq(recs, LAMBDA rec : rec.property_id[1] \in Outcodes)

\* C20: each driver's collection keeps the order the driver builds it in:
\* Rightmove records in region-list order, sale pages before rent pages, in
\* increasing page order; OnTheMarket links in ascending URL order, and the
\* OnTheMarket records, placeholders included, in the order of those links.
Thm_C20_EmissionOrder ==
    /\ IsReturned(property_data) =>
          LET recs == RmOwnRecords(property_data[2])
          IN  \A i \in 1..(Len(recs) - 1) :
                  LexLess(RmOrderKey(recs[i]), RmOrderKey(recs[i + 1]))
    /\ IsReturned(property_links) =>
          \A i, j \in 1..Len(property_links[2]) :
              i < j => property_links[2][i] < property_links[2][j]
    /\ IsReturned(otm_property_lists) =>
          /\ Len(otm_property_lists[2]) = Len(property_links[2])
          /\ \A i \in 1..Len(otm_property_lists[2]) :
                \/ "None" \in DOMAIN otm_property_lists[2][i]
                \/ otm_property_lists[2][i].listing_url = property_links[2][i]

\* scrape_from_otm returned at least two elements for links that no two
\* zipcode tasks shared and whose region order is not their ascending order
Wit_C20_RegionOrderNotAscending ==
    /\ IsReturned(property_links)
    /\ NoRepeats(GatheredLinks)
    /\ GatheredLinks # property_links[2]
    /\ IsReturned(otm_property_lists)
    /\ Len(otm_property_lists[2]) >= 2

(***************************************************************************)
(* parse_data of the Rightmove and Zoopla normalisers on one page payload  *)
(***************************************************************************)

\* most rows of a page payload
MaxRows == 5

Sources == {"rightmove", "zoopla"}

\* payloads: every row is complete or lacks a required key
PagePayloads ==
    UNION {[1..n -> BOOLEAN] : n \in 0..MaxRows}

\* price texts of the rows of a payload: a sale page or a rent page
PayloadPrices == {PriceSale, PriceRent}

PayloadRows(shape, price) == [i \in 1..Len(shape) |-> Row(i, shape[i], price)]

InitParse ==
    /\ pg_rows = <<>>
    /\ pg_for_sale = TRUE
    /\ pg_out = [src \in Sources |-> NoResult]

InitParseInputs ==
    /\ pg_rows \in {PayloadRows(shape, price) : shape \in PagePayloads, price \in PayloadPrices}
    /\ pg_for_sale \in BOOLEAN
    /\ pg_out = [src \in Sources |-> NoResult]

\* rightmove parse_data on the payload
ParseRightmove ==
    /\ pg_out["rightmove"] = NoResult
    /\ pg_out' = [pg_out EXCEPT !["rightmove"] =
                     rm_parse_data([count |-> Missing, block |-> TRUE, rows |-> pg_rows])]
    /\ UNCHANGED <<pg_rows, pg_for_sale>>
    /\ UNCHANGED notParse

\* zoopla parse_data on the payload
ParseZoopla ==
    /\ pg_out["zoopla"] = NoResult
    /\ pg_out' = [pg_out EXCEPT !["zoopla"] = zoopla_parse_data(pg_rows, pg_for_sale)]
    /\ UNCHANGED <<pg_rows, pg_for_sale>>
    /\ UNCHANGED notParse

NextParse == ParseRightmove \/ ParseZoopla

\* rows of the payload that carry every required key
CompleteRows == SelectSeq(pg_rows, LAMBDA row : row.complete)

RowThreeOfFiveMalformed ==
    /\ Len(pg_rows) = 5
    /\ \A i \in 1..5 : pg_rows[i].complete <=> i # 3

\* C9: for a page of 5 rows whose row 3 lacks a required key, parse_data
\* emits exactly the 4 records of rows 1, 2, 4 and 5.
CE_C9_MalformedRowSkipped ==
    \A src \in Sources :
        (RowThreeOfFiveMalformed /\ pg_out[src] # NoResult)
            => /\ IsReturned(pg_out[src])
               /\ Len(pg_out[src][2]) = 4
               /\ [i \in 1..4 |-> pg_out[src][2][i].property_id]
                     = [i \in 1..4 |-> CompleteRows[i].id]

\* C17: parse_data of Zoopla on a page of complete rent listings returns a
\* record for every row, each with its price and its currency.
CE_C17_ZooplaRentPriceParses ==
    (/\ ~pg_for_sale
     /\ pg_rows # <<>>
     /\ \A i \in 1..Len(pg_rows) : pg_rows[i].complete /\ pg_rows[i].price = PriceRent
     /\ pg_out["zoopla"] # NoResult)
        => /\ IsReturned(pg_out["zoopla"])
           /\ Len(pg_out["zoopla"][2]) = Len(pg_rows)
           /\ \A i \in 1..Len(pg_out["zoopla"][2]) :
                 /\ pg_out["zoopla"][2][i].price # NaN
                 /\ pg_out["zoopla"][2][i].price_currency # NaN

(***************************************************************************)
(* parse_property_data and the two parse_price functions applied to one    *)
(* OnTheMarket detail payload                                              *)
(***************************************************************************)

\* the parts a price text is written from: currency symbol, digits with
\* their value, optional fractional digits with theirs, frequency token
Currencies == {"L", "E"}
Amounts == {[text |-> <<"9", "5", "0">>, value |-> 950],
            [text |-> <<"1", ",", "2", "0", "0">>, value |-> 1200]}
Fractions == {[text |-> <<>>, value |-> <<>>],
              [text |-> <<".", "5", "0">>, value |-> <<5>>]}
Frequencies == {<<"p", "c", "m">>, <<"p", "w">>}

PriceForms == [currency : Currencies, amount : Amounts, frac : Fractions, freq : Frequencies]

PriceText(form) == <<form.currency>> \o form.amount.text \o form.frac.text \o <<" ">> \o form.freq

\* sets of keys a payload may lack
AbsentKeys == {{}, {"bedrooms"}, {"minimum-area"}}

\* days the clock can show
MaxDay == 2

PriceSources == {"OnTheMarket", "zoopla"}

\* an entry of row['features']: an icon and the count shown next to it
Feature(iconId, content) == [iconId |-> iconId, content |-> content]

\* features lists a Zoopla row can carry
FeatureLists ==
    {<<>>,
     <<Feature("bed", 3)>>,
     <<Feature("bath", 1)>>,
     <<Feature("bed", 3), Feature("bath", 1)>>,
     <<Feature("bath", 2), Feature("chair", 1), Feature("bed", 4)>>,
     <<Feature("chair", 2)>>}

\* [d for d in dict_key if d['iconId'] == icon][0]["content"]
FirstContent(dict_key, icon) ==
    LET found == SelectSeq(dict_key, LAMBDA d : d.iconId = icon)
    IN  IF found = <<>> THEN Raised("IndexError") ELSE Returned(found[1].content)

\* total_bad_and_bath(dict_key): one try block around both lookups
total_bad_and_bath(dict_key) ==
    LET bed == FirstContent(dict_key, "bed")
        bath == FirstContent(dict_key, "bath")
    IN  IF IsRaised(bed) \/ IsRaised(bath)
          THEN [bed |-> NaN, bath |-> NaN]
          ELSE [bed |-> Count(bed[2]), bath |-> Count(bath[2])]

InitRecord ==
    /\ rc_form = CHOOSE form \in PriceForms : TRUE
    /\ rc_json = DetailJson(1, TRUE, PriceText(rc_form), {})
    /\ rc_today = 1
    /\ rc_price = [src \in PriceSources |-> NoResult]
    /\ rc_parses = <<>>
    /\ rc_features = <<>>
    /\ rc_rooms = NoResult

InitRecordInputs ==
    /\ rc_form \in PriceForms
    /\ rc_json \in {DetailJson(1, for_sale, PriceText(rc_form), absent) :
                       for_sale \in BOOLEAN, absent \in AbsentKeys}
    /\ rc_today = 1
    /\ rc_price = [src \in PriceSources |-> NoResult]
    /\ rc_parses = <<>>
    /\ rc_features \in FeatureLists
    /\ rc_rooms = NoResult

\* parse_price(json_data) of OnTheMarket on the payload
OtmParsePrice ==
    /\ rc_price["OnTheMarket"] = NoResult
    /\ rc_price' = [rc_price EXCEPT !["OnTheMarket"] = otm_parse_price(rc_json)]
    /\ UNCHANGED <<rc_json, rc_form, rc_today, rc_parses, rc_features, rc_rooms>>
    /\ UNCHANGED notRecord

\* parse_price(row, for_sale) of Zoopla on the same price text
ZooplaParsePrice ==
    /\ rc_price["zoopla"] = NoResult
    /\ rc_price' = [rc_price EXCEPT !["zoopla"] =
                       zoopla_parse_price(rc_json.price, rc_json.for_sale)]
    /\ UNCHANGED <<rc_json, rc_form, rc_today, rc_parses, rc_features, rc_rooms>>
    /\ UNCHANGED notRecord

\* parse_property_data on the payload, at most twice
ParsePropertyData ==
    /\ Len(rc_parses) < 2
    /\ rc_parses' = Append(rc_parses,
                           parse_property_data([block |-> TRUE, json_data |-> rc_json], rc_today))
    /\ UNCHANGED <<rc_json, rc_form, rc_today, rc_price, rc_features, rc_rooms>>
    /\ UNCHANGED notRecord

\* midnight passes
DayPasses ==
    /\ rc_today < MaxDay
    /\ rc_today' = rc_today + 1
    /\ UNCHANGED <<rc_json, rc_form, rc_price, rc_parses, rc_features, rc_rooms>>
    /\ UNCHANGED notRecord

\* total_bad_and_bath(dict_key=row['features']) as parse_data calls it
ZooplaTotalBedAndBath ==
    /\ rc_rooms = NoResult
    /\ rc_rooms' = Returned(total_bad_and_bath(rc_features))
    /\ UNCHANGED <<rc_json, rc_form, rc_today, rc_price, rc_parses, rc_features>>
    /\ UNCHANGED notRecord

NextRecord ==
    \/ OtmParsePrice \/ ZooplaParsePrice \/ ParsePropertyData \/ DayPasses
    \/ ZooplaTotalBedAndBath

\* C21: for a price text written as currency symbol, digits, optional
\* fractional digits and a frequency token, each parse_price returns the
\* value of the digits as the amount and the first character as the
\* currency, and for a rental the frequency token as the frequency.
CE_C21_PriceTextParsed ==
    \A src \in PriceSources :
        rc_price[src] # NoResult =>
            /\ IsReturned(rc_price[src])
            /\ rc_price[src][2].price = Float(rc_form.amount.value, rc_form.frac.value)
            /\ rc_price[src][2].price_currency = rc_form.currency
            /\ ~rc_json.for_sale => rc_price[src][2].rent_freq = rc_form.freq

\* C22: whichever optional key the payload lacks, parse_property_data
\* returns a record, and the field of the absent key is the unknown value.
CE_C22_AbsentFieldUnknown ==
    \A i \in 1..Len(rc_parses) :
        /\ IsReturned(rc_parses[i])
        /\ rc_json.bedrooms = Missing => rc_parses[i][2].bedrooms = NaN
        /\ rc_json.minimum_area = Missing => rc_parses[i][2].displaySize = NaN

\* the count the features list shows for an icon, unknown when it has no
\* entry for the icon
ShownCount(features, icon) ==
    IF \E i \in 1..Len(features) : features[i].iconId = icon
      THEN Count(features[CHOOSE i \in 1..Len(features) :
                            /\ features[i].iconId = icon
                            /\ \A j \in 1..(i - 1) : features[j].iconId # icon].content)
      ELSE NaN

\* C31: total_bad_and_bath returns for each of "bed" and "bath" the count
\* of its entry in the features list, and unknown only for the one whose
\* entry is missing.
CE_C31_PresentCountReturned ==
    rc_rooms # NoResult =>
        /\ rc_rooms[2].bed = ShownCount(rc_features, "bed")
        /\ rc_rooms[2].bath = ShownCount(rc_features, "bath")

Init ==
    InitFetch /\ InitGate /\ InitMain /\ InitRM /\ InitOTM /\ InitZoopla /\ InitParse /\ InitRecord

SpecFetch == Init /\ [][NextFetch]_vars

SpecGate == Init /\ [][NextGate]_vars

SpecMain == Init /\ [][NextMain]_vars

SpecRM == Init /\ [][NextRM]_vars

SpecRMLongWalk == Init /\ [][NextRMLongWalk]_vars

SpecOTM == Init /\ [][NextOTM]_vars

SpecZoopla == Init /\ [][NextZoopla]_vars

\* the parse specification starts from any page payload
InitPayload ==
    InitFetch /\ InitGate /\ InitMain /\ InitRM /\ InitOTM /\ InitZoopla /\ InitParseInputs
        /\ InitRecord

SpecParse == InitPayload /\ [][NextParse]_vars

\* the record specification starts from any detail payload
InitDetailPayload ==
    InitFetch /\ InitGate /\ InitMain /\ InitRM /\ InitOTM /\ InitZoopla /\ InitParse
        /\ InitRecordInputs

SpecRecord == InitDetailPayload /\ [][NextRecord]_vars

====
